---- MODULE Spec2Model ----
(***************************************************************************)
(* Model of the encrypted-container pipeline of secure-file-tool           *)
(* (src/lib/crypto.ts, lines 119-305, and the legacy SFE1 encoder kept in  *)
(* src/unnamed/part_003, lines 228-326).                                   *)
(*                                                                         *)
(* Bytes are integers 0..255, a Uint8Array is a sequence of bytes, a       *)
(* JavaScript string is a sequence of code points (a value in              *)
(* 0xD800..0xDFFF stands for an unpaired surrogate).  encryptFile and      *)
(* decryptFile are modelled one action per stretch of code between two     *)
(* awaits.  The WebCrypto primitives are outside the repository; they are  *)
(* modelled by small ciphers of the same structure (see subtleEncrypt).    *)
(***************************************************************************)
EXTENDS Integers, Sequences, FiniteSets, TLC

(***************************************************************************)
(* Program constants (src/lib/crypto.ts).                                  *)
(***************************************************************************)
MAGIC_V1 == <<83, 70, 69, 49>>   \* "SFE1"
MAGIC_V2 == <<83, 70, 69, 50>>   \* "SFE2"

Algorithm == {"AES-GCM", "AES-CBC"}

ALG_BYTE(algorithm) == IF algorithm = "AES-GCM" THEN 1 ELSE 2

SALT_BYTES == 16
GCM_IV_BYTES == 12
CBC_IV_BYTES == 16
\* the literal of `ciphertext.byteLength < 16`
MIN_CIPHERTEXT == 16
\* file.type || "application/octet-stream"
DEFAULT_MIME == <<97, 112, 112, 108, 105, 99, 97, 116, 105, 111, 110, 47,
                  111, 99, 116, 101, 116, 45, 115, 116, 114, 101, 97, 109>>
\* ".enc"
ENC_SUFFIX == <<46, 101, 110, 99>>

(***************************************************************************)
(* Bounds of the model.                                                    *)
(***************************************************************************)
\* longest name and longest MIME type (in code points) of the enumerated files
MaxName == 2
\* containers longer than this are decrypted as they are, never tampered with
MaxTamperLen == 120
\* how many bytes the UTF-8 decoder takes in one sequential run
DecodeChunk == 64
\* how many operations a page starts
MaxRuns == 2

(***************************************************************************)
(* Bytes and sequences.                                                    *)
(***************************************************************************)
Byte == 0..255

Min(a, b) == IF a < b THEN a ELSE b
Max(a, b) == IF a > b THEN a ELSE b

Bit(a, k) == (a \div (2 ^ k)) % 2

\* a ^ b on two bytes
XorByte(a, b) ==
    ((Bit(a, 0) + Bit(b, 0)) % 2) + 2 * ((Bit(a, 1) + Bit(b, 1)) % 2)
    + 4 * ((Bit(a, 2) + Bit(b, 2)) % 2) + 8 * ((Bit(a, 3) + Bit(b, 3)) % 2)
    + 16 * ((Bit(a, 4) + Bit(b, 4)) % 2) + 32 * ((Bit(a, 5) + Bit(b, 5)) % 2)
    + 64 * ((Bit(a, 6) + Bit(b, 6)) % 2) + 128 * ((Bit(a, 7) + Bit(b, 7)) % 2)

\* Uint8Array.prototype.slice(start, end): both ends clamped to the length,
\* never an out-of-bounds read (0-based, end exclusive)
Slice(buf, start, end) ==
    LET s == Min(start, Len(buf))
        e == Min(end, Len(buf))
    IN  IF e <= s THEN <<>> ELSE SubSeq(buf, s + 1, e)

\* new Uint8Array(n).fill(v)
Fill(n, v) == [i \in 1..n |-> v]

\* a buffer left as it is
NotZeroed(buf) == buf

\* buf.fill(0): lines 211 and 302
Zeroed(buf) == Fill(Len(buf), 0)

RECURSIVE concatBytes(_)
concatBytes(chunks) ==
    IF chunks = <<>> THEN <<>>
    ELSE Head(chunks) \o concatBytes(Tail(chunks))

\* u16 with the byte order flag set: little-endian
u16LittleEndian(n) == << n % 256, (n % 65536) \div 256 >>

\* DataView.setUint16(0, n, false): ToUint16(n), big-endian
u16(n) == << (n % 65536) \div 256, n % 256 >>

\* DataView.getUint16(0, false) on a view starting at `offset` (0-based);
\* the caller has to know that offset + 2 <= Len(buf)
readU16(buf, offset) == (buf[offset + 1] * 256) + buf[offset + 2]

\* sum of f[i] for i in lo..hi modulo 256, by halving (the depth stays
\* logarithmic and no partial sum leaves 32 bits)
RECURSIVE SumMod256(_, _, _)
SumMod256(f, lo, hi) ==
    IF lo > hi THEN 0
    ELSE IF lo = hi THEN f[lo] % 256
    ELSE LET m == (lo + hi) \div 2
         IN  (SumMod256(f, lo, m) + SumMod256(f, m + 1, hi)) % 256

(***************************************************************************)
(* TextEncoder / TextDecoder (UTF-8, WHATWG Encoding).                     *)
(***************************************************************************)
IsSurrogate(cp) == cp >= 55296 /\ cp <= 57343

\* one code point to UTF-8; an unpaired surrogate becomes U+FFFD
EncodeCp(c) ==
    LET cp == IF IsSurrogate(c) THEN 65533 ELSE c
    IN  IF cp < 128 THEN << cp >>
        ELSE IF cp < 2048 THEN << 192 + (cp \div 64), 128 + (cp % 64) >>
        ELSE IF cp < 65536
             THEN << 224 + (cp \div 4096), 128 + ((cp \div 64) % 64),
                     128 + (cp % 64) >>
        ELSE << 240 + (cp \div 262144), 128 + ((cp \div 4096) % 64),
                128 + ((cp \div 64) % 64), 128 + (cp % 64) >>

RECURSIVE utf8Encode(_)
utf8Encode(s) ==
    IF Len(s) = 0 THEN <<>>
    ELSE IF Len(s) = 1 THEN EncodeCp(s[1])
    ELSE LET m == Len(s) \div 2
         IN  utf8Encode(SubSeq(s, 1, m)) \o utf8Encode(SubSeq(s, m + 1, Len(s)))

IsCont(b) == b >= 128 /\ b <= 191

\* The WHATWG UTF-8 decoder run over b[i..Len(b)]: cp, need (bytes needed),
\* lo and hi (the bounds of the next continuation byte) are its state.
RECURSIVE DecodeFrom(_, _, _, _, _, _)
DecodeFrom(b, i, cp, need, lo, hi) ==
    IF i > Len(b)
    THEN IF need > 0 THEN << 65533 >> ELSE <<>>
    ELSE LET x == b[i] IN
      IF need = 0
      THEN IF x < 128 THEN << x >> \o DecodeFrom(b, i + 1, 0, 0, 128, 191)
           ELSE IF x >= 194 /\ x <= 223
                THEN DecodeFrom(b, i + 1, x % 32, 1, 128, 191)
           ELSE IF x >= 224 /\ x <= 239
                THEN DecodeFrom(b, i + 1, x % 16, 2,
                                IF x = 224 THEN 160 ELSE 128,
                                IF x = 237 THEN 159 ELSE 191)
           ELSE IF x >= 240 /\ x <= 244
                THEN DecodeFrom(b, i + 1, x % 8, 3,
                                IF x = 240 THEN 144 ELSE 128,
                                IF x = 244 THEN 143 ELSE 191)
           ELSE << 65533 >> \o DecodeFrom(b, i + 1, 0, 0, 128, 191)
      ELSE IF x < lo \/ x > hi
           \* the byte is put back and decoded again from the initial state
           THEN << 65533 >> \o DecodeFrom(b, i, 0, 0, 128, 191)
           ELSE IF need = 1
                THEN << (cp * 64) + (x % 64) >> \o DecodeFrom(b, i + 1, 0, 0, 128, 191)
                ELSE DecodeFrom(b, i + 1, (cp * 64) + (x % 64), need - 1, 128, 191)


\* The decoder is back in its initial state before every byte that is not a
\* continuation byte, so a long input is decoded in two halves cut before
\* such a byte.
RECURSIVE DecodeStream(_)
DecodeStream(b) ==
    IF Len(b) <= DecodeChunk THEN DecodeFrom(b, 1, 0, 0, 128, 191)
    ELSE LET m    == Len(b) \div 2
             cuts == {k \in m..Min(m + 8, Len(b) - 1) : ~IsCont(b[k + 1])}
         IN  IF cuts = {} THEN DecodeFrom(b, 1, 0, 0, 128, 191)
             ELSE LET k == CHOOSE c \in cuts : \A d \in cuts : c <= d
                  IN  DecodeStream(SubSeq(b, 1, k))
                        \o DecodeStream(SubSeq(b, k + 1, Len(b)))

\* new TextDecoder().decode(b): ignoreBOM is false, a leading BOM is dropped
utf8Decode(b) ==
    LET s == DecodeStream(b)
    IN  IF Len(s) > 0 /\ s[1] = 65279 THEN Tail(s) ELSE s

\* The type of new Blob(parts, {type}): "" when a character is outside
\* U+0020..U+007E, ASCII-lowercased otherwise (File API).
BlobType(t) ==
    IF \E i \in 1..Len(t) : t[i] < 32 \/ t[i] > 126 THEN <<>>
    ELSE [i \in 1..Len(t) |-> IF t[i] >= 65 /\ t[i] <= 90 THEN t[i] + 32 ELSE t[i]]

\* getSuggestedEncName that does not add ".enc" to a name that ends in it
getSuggestedEncNameOnce(origName) ==
    IF /\ Len(origName) >= Len(ENC_SUFFIX)
       /\ SubSeq(origName, Len(origName) - Len(ENC_SUFFIX) + 1, Len(origName)) = ENC_SUFFIX
    THEN origName
    ELSE origName \o ENC_SUFFIX

getSuggestedEncName(origName) == origName \o ENC_SUFFIX

(***************************************************************************)
(* WebCrypto (crypto.subtle), modelled.  A CryptoKey is its key bits and   *)
(* the algorithm name it was derived for.  PBKDF2 is a polynomial hash of  *)
(* password and salt; AES-GCM is a stream cipher followed by a 16-byte tag *)
(* in which every ciphertext byte has an odd weight (so, as with GHASH, a  *)
(* single flipped bit always changes the tag) and every key bit counts;    *)
(* AES-CBC is a byte-wise keyed permutation of 16-byte blocks, chained,    *)
(* with PKCS#7 padding.                                                    *)
(***************************************************************************)
RECURSIVE PolyHash(_, _, _)
PolyHash(b, i, h) ==
    IF i > Len(b) THEN h
    ELSE PolyHash(b, i + 1, ((h * 31) + b[i] + 1) % 65521)

PBKDF2(pwBytes, salt) == PolyHash(salt, 1, PolyHash(pwBytes, 1, 7))

\* deriveKeyForAlgo with the password left out of the key material
deriveKeyFromSalt(password, salt, algorithm) ==
    [bits |-> PBKDF2(<<>>, salt), name |-> algorithm]

\* lines 165-187
deriveKeyForAlgo(password, salt, algorithm) ==
    [bits |-> PBKDF2(utf8Encode(password), salt), name |-> algorithm]

\* byte j (1..16) of the key schedule
KeyByte(bits, j) ==
    IF j % 2 = 1 THEN ((bits % 256) + j) % 256
    ELSE ((bits \div 256) + j) % 256

BLOCK_BYTES == CBC_IV_BYTES
TAG_BYTES == 128 \div 8

Ok(data) == [ok |-> TRUE, data |-> data, error |-> ""]
Throw(error) == [ok |-> FALSE, data |-> <<>>, error |-> error]

GcmStream(key, iv, i) ==
    (KeyByte(key.bits, ((i - 1) % BLOCK_BYTES) + 1)
       + iv[((i - 1) % Len(iv)) + 1] + i) % 256

GcmCrypt(key, iv, data) ==
    [i \in 1..Len(data) |-> XorByte(data[i], GcmStream(key, iv, i))]

GcmHash(iv, ct) ==
    ( SumMod256([i \in 1..Len(ct) |-> (((2 * i) - 1) % 256) * ct[i]], 1, Len(ct))
      + SumMod256([i \in 1..Len(iv) |-> ((2 * i) + 1) * iv[i]], 1, Len(iv))
      + Len(ct) ) % 256

GcmTag(key, iv, ct) ==
    LET h == GcmHash(iv, ct)
    IN  [j \in 1..TAG_BYTES |-> (h + KeyByte(key.bits, j)) % 256]

Pkcs7Pad(plain) ==
    LET v == BLOCK_BYTES - (Len(plain) % BLOCK_BYTES)
    IN  plain \o Fill(v, v)

\* c_i = E_k(p_i ^ c_{i-1}), c_0 = iv, over the padded plaintext
RECURSIVE CbcEncryptFrom(_, _, _, _)
CbcEncryptFrom(key, prev, padded, i) ==
    IF i > Len(padded) THEN <<>>
    ELSE LET block == [j \in 1..BLOCK_BYTES |->
                         (XorByte(padded[i + j - 1], prev[j])
                            + KeyByte(key.bits, j)) % 256]
         IN  block \o CbcEncryptFrom(key, block, padded, i + BLOCK_BYTES)

\* p_i = D_k(c_i) ^ c_{i-1}
CbcDecryptBlocks(key, iv, ct) ==
    [i \in 1..Len(ct) |->
        LET j == ((i - 1) % BLOCK_BYTES) + 1
        IN  XorByte((ct[i] + 256 - KeyByte(key.bits, j)) % 256,
                    IF i <= BLOCK_BYTES THEN iv[i] ELSE ct[i - BLOCK_BYTES])]

Pkcs7Valid(padded) ==
    /\ Len(padded) > 0
    /\ LET v == padded[Len(padded)]
       IN  /\ v >= 1
           /\ v <= BLOCK_BYTES
           /\ v <= Len(padded)
           /\ \A i \in (Len(padded) - v + 1)..Len(padded) : padded[i] = v

\* crypto.subtle.encrypt({ name, iv }, key, data)
subtleEncrypt(name, iv, key, data) ==
    IF key.name # name THEN Throw("InvalidAccessError")
    ELSE IF name = "AES-GCM"
    THEN IF Len(iv) = 0 THEN Throw("OperationError")
         ELSE LET ct == GcmCrypt(key, iv, data)
              IN  Ok(ct \o GcmTag(key, iv, ct))
    ELSE IF Len(iv) # BLOCK_BYTES THEN Throw("OperationError")
         ELSE Ok(CbcEncryptFrom(key, iv, Pkcs7Pad(data), 1))

\* crypto.subtle.decrypt({ name, iv }, key, data)
subtleDecrypt(name, iv, key, data) ==
    IF key.name # name THEN Throw("InvalidAccessError")
    ELSE IF name = "AES-GCM"
    THEN IF Len(iv) = 0 \/ Len(data) < TAG_BYTES THEN Throw("OperationError")
         ELSE LET ct  == SubSeq(data, 1, Len(data) - TAG_BYTES)
                  tag == SubSeq(data, Len(data) - TAG_BYTES + 1, Len(data))
              IN  IF tag # GcmTag(key, iv, ct) THEN Throw("OperationError")
                  ELSE Ok(GcmCrypt(key, iv, ct))
    ELSE IF Len(iv) # BLOCK_BYTES \/ Len(data) = 0 \/ Len(data) % BLOCK_BYTES # 0
         THEN Throw("OperationError")
         ELSE LET padded == CbcDecryptBlocks(key, iv, data)
              IN  IF ~Pkcs7Valid(padded) THEN Throw("OperationError")
                  ELSE Ok(SubSeq(padded, 1, Len(padded) - padded[Len(padded)]))

(***************************************************************************)
(* Errors.  decryptFile throws Error(message); the DataView throws a       *)
(* RangeError of its own when a read does not fit the buffer.              *)
(***************************************************************************)
ERR_TOO_SMALL == "Invalid or too-small file."
ERR_MAGIC == "Invalid file header."
ERR_HEADER == "Invalid header."
ERR_ALGORITHM == "Unsupported algorithm."
ERR_NAME == "Corrupted name field."
ERR_MIME == "Corrupted MIME field."
ERR_CIPHERTEXT == "Ciphertext too small."
ERR_DECRYPT == "Wrong password or file is corrupted."
ERR_RANGE == "RangeError: Offset is outside the bounds of the DataView"

\* The category of the spec's error taxonomy a thrown message belongs to.
Taxonomy(message) ==
    IF message \in {ERR_TOO_SMALL, ERR_MAGIC, ERR_HEADER} THEN "InvalidFormat"
    ELSE IF message = ERR_ALGORITHM THEN "UnsupportedAlgorithm"
    ELSE IF message = ERR_NAME THEN "CorruptField(name)"
    ELSE IF message = ERR_MIME THEN "CorruptField(MIME)"
    ELSE IF message = ERR_CIPHERTEXT THEN "CiphertextTooSmall"
    ELSE IF message = ERR_DECRYPT THEN "DecryptionFailed"
    ELSE "none"

(***************************************************************************)
(* decryptFile, lines 238-285: the header is decoded in one synchronous    *)
(* run.  The decoder state `st` holds the offset, the fields read so far,  *)
(* the error thrown (if any) and `reads`, the byte ranges <<field, from,   *)
(* to>> (0-based, `to` exclusive) the code asked the buffer for.           *)
(***************************************************************************)
ParseStart ==
    [off |-> 0, error |-> "", stage |-> "ExpectMagic",
     isV1 |-> FALSE, isV2 |-> FALSE, algorithm |-> "", ivLen |-> 0,
     salt |-> <<>>, iv |-> <<>>,
     nameLen |-> -1, nameBytes |-> <<>>, mimeLen |-> -1, mimeBytes |-> <<>>,
     ciphertext |-> <<>>, reads |-> <<>>]

Fail(st, message) == [st EXCEPT !.error = message]

\* line 239
HasMagic(buf) == ~(Len(buf) < 4)

\* lines 239-248
ExpectMagic(buf, st) ==
    IF ~HasMagic(buf) THEN Fail(st, ERR_TOO_SMALL)
    ELSE LET magic == Slice(buf, 0, 4)
             isV2  == \A i \in 1..Len(magic) : magic[i] = MAGIC_V2[i]
             isV1  == \A i \in 1..Len(magic) : magic[i] = MAGIC_V1[i]
             read  == [st EXCEPT !.reads = Append(@, <<"magic", 0, 4>>)]
         IN  IF ~isV1 /\ ~isV2 THEN Fail(read, ERR_MAGIC)
             ELSE [read EXCEPT !.off = 4, !.isV1 = isV1, !.isV2 = isV2,
                               !.algorithm = "AES-GCM", !.ivLen = GCM_IV_BYTES,
                               !.stage = "ExpectAlgorithm"]

\* the check of line 251 asking for the algorithm byte only
HasAlgorithmByteOnly(buf, off) == ~(Len(buf) < off + 1)

\* line 251
HasAlgorithmByte(buf, off) == ~(Len(buf) < off + 1 + SALT_BYTES)

\* ExpectAlgorithm that takes an algorithm byte whatever the version is
ExpectAlgorithmAnyVersion(buf, st) ==
    IF st.error # "" THEN st
    ELSE IF ~HasAlgorithmByte(buf, st.off) THEN Fail(st, ERR_HEADER)
    ELSE LET algByte == buf[st.off + 1]
             read == [st EXCEPT !.off = @ + 1,
                         !.reads = Append(@, <<"algorithm", st.off, st.off + 1>>)]
         IN  IF algByte = ALG_BYTE("AES-GCM")
             THEN [read EXCEPT !.algorithm = "AES-GCM", !.ivLen = GCM_IV_BYTES,
                               !.stage = "ExpectSalt"]
             ELSE IF algByte = ALG_BYTE("AES-CBC")
             THEN [read EXCEPT !.algorithm = "AES-CBC", !.ivLen = CBC_IV_BYTES,
                               !.stage = "ExpectSalt"]
             ELSE Fail(read, ERR_ALGORITHM)

\* lines 250-266
ExpectAlgorithm(buf, st) ==
    IF st.error # "" THEN st
    ELSE IF st.isV2
    THEN IF ~HasAlgorithmByte(buf, st.off) THEN Fail(st, ERR_HEADER)
         ELSE LET algByte == buf[st.off + 1]
                  read == [st EXCEPT !.off = @ + 1,
                              !.reads = Append(@, <<"algorithm", st.off, st.off + 1>>)]
              IN  IF algByte = ALG_BYTE("AES-GCM")
                  THEN [read EXCEPT !.algorithm = "AES-GCM", !.ivLen = GCM_IV_BYTES,
                                    !.stage = "ExpectSalt"]
                  ELSE IF algByte = ALG_BYTE("AES-CBC")
                  THEN [read EXCEPT !.algorithm = "AES-CBC", !.ivLen = CBC_IV_BYTES,
                                    !.stage = "ExpectSalt"]
                  ELSE Fail(read, ERR_ALGORITHM)
    ELSE [st EXCEPT !.algorithm = "AES-GCM", !.ivLen = GCM_IV_BYTES,
                    !.stage = "ExpectSalt"]

\* the check of line 268 without the two length prefixes
HasSaltAndIv(buf, off, ivLen) == ~(Len(buf) < off + SALT_BYTES + ivLen)

\* line 268
HasFixedHeader(buf, off, ivLen) == ~(Len(buf) < off + SALT_BYTES + ivLen + 2 + 2)

\* ExpectSaltIv with the offset moved past the salt only
ExpectSaltIvShortAdvance(buf, st) ==
    IF st.error # "" THEN st
    ELSE IF ~HasFixedHeader(buf, st.off, st.ivLen) THEN Fail(st, ERR_TOO_SMALL)
    ELSE [st EXCEPT
            !.salt = Slice(buf, st.off, st.off + SALT_BYTES),
            !.iv = Slice(buf, st.off + SALT_BYTES, st.off + SALT_BYTES + st.ivLen),
            !.off = st.off + SALT_BYTES,
            !.reads = @ \o << <<"salt", st.off, st.off + SALT_BYTES>>,
                              <<"iv", st.off + SALT_BYTES,
                                st.off + SALT_BYTES + st.ivLen>> >>,
            !.stage = "ExpectNameLength"]

\* lines 268-272
ExpectSaltIv(buf, st) ==
    IF st.error # "" THEN st
    ELSE IF ~HasFixedHeader(buf, st.off, st.ivLen) THEN Fail(st, ERR_TOO_SMALL)
    ELSE [st EXCEPT
            !.salt = Slice(buf, st.off, st.off + SALT_BYTES),
            !.iv = Slice(buf, st.off + SALT_BYTES, st.off + SALT_BYTES + st.ivLen),
            !.off = st.off + SALT_BYTES + st.ivLen,
            !.reads = @ \o << <<"salt", st.off, st.off + SALT_BYTES>>,
                              <<"iv", st.off + SALT_BYTES,
                                st.off + SALT_BYTES + st.ivLen>> >>,
            !.stage = "ExpectNameLength"]

\* new DataView(buf.buffer, buf.byteOffset + off).getUint16(0, false) reads
\* the two bytes at off and off + 1, or throws a RangeError
ViewHasU16(buf, off) == off + 2 <= Len(buf)

\* the check of lines 276 and 281 counting from the prefix, not from the field
FieldFitsFromPrefix(buf, off, len) == ~((off - 2) + len > Len(buf))

\* lines 276 and 281: off + len > buf.byteLength, off already past the prefix
FieldFits(buf, off, len) == ~(off + len > Len(buf))

\* lines 274-277
ExpectName(buf, st) ==
    IF st.error # "" THEN st
    ELSE LET asked == [st EXCEPT !.reads = Append(@, <<"nameLen", st.off, st.off + 2>>)]
         IN  IF ~ViewHasU16(buf, st.off) THEN Fail(asked, ERR_RANGE)
             ELSE LET nameLen == readU16(buf, st.off)
                      off     == st.off + 2
                      read    == [asked EXCEPT !.nameLen = nameLen, !.off = off,
                                               !.stage = "ExpectName"]
                  IN  IF ~FieldFits(buf, off, nameLen) THEN Fail(read, ERR_NAME)
                      ELSE [read EXCEPT
                              !.nameBytes = Slice(buf, off, off + nameLen),
                              !.off = off + nameLen,
                              !.reads = Append(@, <<"name", off, off + nameLen>>),
                              !.stage = "ExpectMimeLength"]

\* lines 279-282
ExpectMime(buf, st) ==
    IF st.error # "" THEN st
    ELSE LET asked == [st EXCEPT !.reads = Append(@, <<"mimeLen", st.off, st.off + 2>>)]
         IN  IF ~ViewHasU16(buf, st.off) THEN Fail(asked, ERR_RANGE)
             ELSE LET mimeLen == readU16(buf, st.off)
                      off     == st.off + 2
                      read    == [asked EXCEPT !.mimeLen = mimeLen, !.off = off,
                                               !.stage = "ExpectMime"]
                  IN  IF ~FieldFits(buf, off, mimeLen) THEN Fail(read, ERR_MIME)
                      ELSE [read EXCEPT
                              !.mimeBytes = Slice(buf, off, off + mimeLen),
                              !.off = off + mimeLen,
                              !.reads = Append(@, <<"mime", off, off + mimeLen>>),
                              !.stage = "ExpectCiphertext"]

\* the check of line 285 with <= for <
CiphertextMoreThanTag(ciphertext) == ~(Len(ciphertext) <= MIN_CIPHERTEXT)

\* the check of line 285 left out
CiphertextAnyLength(ciphertext) == TRUE

\* line 285
CiphertextBigEnough(ciphertext) == ~(Len(ciphertext) < MIN_CIPHERTEXT)

\* lines 284-285
ExpectCiphertext(buf, st) ==
    IF st.error # "" THEN st
    ELSE LET ciphertext == Slice(buf, st.off, Len(buf))
             read == [st EXCEPT !.ciphertext = ciphertext,
                                !.reads = Append(@, <<"ciphertext", st.off, Len(buf)>>)]
         IN  IF ~CiphertextBigEnough(ciphertext) THEN Fail(read, ERR_CIPHERTEXT)
             ELSE [read EXCEPT !.off = Len(buf), !.stage = "Done"]

\* lines 238-285
ParseContainer(buf) ==
    ExpectCiphertext(buf,
      ExpectMime(buf,
        ExpectName(buf,
          ExpectSaltIv(buf,
            ExpectAlgorithm(buf,
              ExpectMagic(buf, ParseStart))))))

(***************************************************************************)
(* Inputs: the files, passwords and random values the model draws from.    *)
(***************************************************************************)
\* all sequences over `chars` of length 0..n
RECURSIVE SeqsUpTo(_, _)
SeqsUpTo(chars, n) ==
    IF n = 0 THEN {<<>>}
    ELSE LET shorter == SeqsUpTo(chars, n - 1)
         IN  shorter \cup {Append(t, c) : t \in {u \in shorter : Len(u) = n - 1},
                                            c \in chars}

File(name, type, bytes) == [name |-> name, type |-> type, bytes |-> bytes]

\* "a" and "é": one and two bytes of UTF-8
NameChars == {97, 233}
\* a name that starts with U+FEFF, and one that is an unpaired surrogate
OddNames == {<<65279, 97>>, <<55296>>}
Names == SeqsUpTo(NameChars, MaxName) \cup OddNames
\* "" and "t/p": a File's type is "" or lower-case printable ASCII
Types == {<<>>, <<116, 47, 112>>}
\* 0, 1, 15, 16 and 17 bytes: around one cipher block
Plains == {<<>>, <<104>>, [i \in 1..(BLOCK_BYTES - 1) |-> i], Fill(BLOCK_BYTES, 1),
           [i \in 1..(BLOCK_BYTES + 1) |-> 200 + i]}

\* "p1", "p2"
Passwords == {<<112, 49>>, <<112, 50>>}
\* crypto.getRandomValues: the buffer filled with one of these values
RandomFill == {0, 165}
RandomBytes(n) == {Fill(n, v) : v \in RandomFill}

NoKey == [bits |-> -1, name |-> ""]
NoBlob == [bytes |-> <<>>, type |-> <<>>]
NoFile == File(<<>>, <<>>, <<>>)

VARIABLES
    enc,      \* the encryptFile call: its position and its locals
    dec,      \* the decryptFile call: its position and its locals
    stored,   \* the container file handed to decryptFile: [name, bytes]
    tamper,   \* what was done to the stored container after it was written
    calls,    \* the crypto.subtle calls made so far, in order
    page      \* the page shown in the browser and its React state

vars == <<enc, dec, stored, tamper, calls, page>>

EncIdle ==
    [pc |-> "idle", legacy |-> FALSE, file |-> NoFile, password |-> <<>>,
     algorithm |-> "", salt |-> <<>>, iv |-> <<>>, key |-> NoKey,
     plain |-> <<>>, cipherBuf |-> <<>>, error |-> "",
     blob |-> NoBlob, suggestedName |-> <<>>]

DecIdle ==
    [pc |-> "idle", file |-> <<>>, password |-> <<>>, st |-> ParseStart, key |-> NoKey,
     plainBuf |-> <<>>, thrown |-> "", error |-> "",
     blob |-> NoBlob, suggestedName |-> <<>>]

NoTamper == [kind |-> "none", at |-> 0, bit |-> 0]

\* useState(null) and useState(""): no error to show
NoError == ""

\* The state of the page that is shown: "home" (src/app/page.tsx), or the
\* encrypt page or the decrypt page after its first render (part_001 lines
\* 11-15, decrypt/page.tsx lines 11-14).  file is <<>> for null and <<f>>
\* for a picked file.  awaiting tells that the handler is suspended at its
\* await; runs, downloads and failures count what the handlers have done,
\* and saved is what downloadBlob handed over last.
PageIdle ==
    [route |-> "home", file |-> <<>>, password |-> <<>>, algorithm |-> "AES-GCM",
     busy |-> FALSE, error |-> NoError, awaiting |-> FALSE,
     runs |-> 0, downloads |-> 0, failures |-> 0, saved |-> <<>>]

Init ==
    /\ enc = EncIdle
    /\ dec = DecIdle
    /\ stored = [name |-> <<>>, bytes |-> <<>>]
    /\ tamper = NoTamper
    /\ calls = <<>>
    /\ page = PageIdle

Call(by, op, name, keyName, ivLen, dataLen) ==
    [by |-> by, op |-> op, name |-> name, keyName |-> keyName,
     ivLen |-> ivLen, dataLen |-> dataLen]

(***************************************************************************)
(* encryptFile, lines 194-231, and the legacy encoder (part_003, lines     *)
(* 291-326), which wrote SFE1: no algorithm byte, AES-GCM, 12-byte IV.     *)
(***************************************************************************)
\* the IV length of AES-GCM whatever the algorithm is
IvBytesGcm(algorithm) == GCM_IV_BYTES

\* lines 200-203 (legacy: IV_BYTES = 12)
IvBytes(algorithm) == IF algorithm = "AES-GCM" THEN GCM_IV_BYTES ELSE CBC_IV_BYTES

\* lines 199-205: salt and IV are drawn, deriveKeyForAlgo is called
EncryptCall(file, password, algorithm, legacy, salt, iv) ==
    /\ enc.pc = "idle"
    /\ legacy => algorithm = "AES-GCM"
    /\ Len(salt) = SALT_BYTES
    /\ Len(iv) = IvBytes(algorithm)
    /\ enc' = [enc EXCEPT !.pc = "derive", !.legacy = legacy, !.file = file,
                          !.password = password, !.algorithm = algorithm,
                          !.salt = salt, !.iv = iv]
    /\ calls' = Append(calls, Call("encryptFile", "deriveKey", algorithm, algorithm, -1, -1))
    /\ UNCHANGED <<dec, stored, tamper, page>>

\* lines 205-207: the key is there, file.arrayBuffer() is awaited
EncryptDerived ==
    /\ enc.pc = "derive"
    /\ enc' = [enc EXCEPT !.pc = "read",
                          !.key = deriveKeyForAlgo(enc.password, enc.salt, enc.algorithm)]
    /\ UNCHANGED <<dec, stored, tamper, calls, page>>

\* lines 207-208: the plaintext is there, crypto.subtle.encrypt is called
EncryptRead ==
    /\ enc.pc = "read"
    /\ enc' = [enc EXCEPT !.pc = "seal", !.plain = enc.file.bytes]
    /\ calls' = Append(calls, Call("encryptFile", "encrypt", enc.algorithm, enc.key.name,
                                   Len(enc.iv), Len(enc.file.bytes)))
    /\ UNCHANGED <<dec, stored, tamper, page>>

\* the header of the legacy encoder, whatever was asked for
BuildHeaderLegacy(legacy, algorithm, salt, iv, nameBytes, mimeBytes) ==
    concatBytes(<< MAGIC_V1, salt, iv,
                   u16(Len(nameBytes)), nameBytes,
                   u16(Len(mimeBytes)), mimeBytes >>)

\* lines 213-226 (legacy: part_003 lines 310-321)
BuildHeader(legacy, algorithm, salt, iv, nameBytes, mimeBytes) ==
    concatBytes(<< IF legacy THEN MAGIC_V1 ELSE MAGIC_V2,
                   IF legacy THEN <<>> ELSE <<ALG_BYTE(algorithm)>>,
                   salt, iv,
                   u16(Len(nameBytes)), nameBytes,
                   u16(Len(mimeBytes)), mimeBytes >>)

\* line 214
TypeOrDefault(type) == IF type = <<>> THEN DEFAULT_MIME ELSE type

\* lines 208-230: the ciphertext is there (or encrypt threw); the plaintext
\* buffer is zeroed, the container is assembled and returned
EncryptSettle ==
    /\ enc.pc = "seal"
    /\ LET sealed == subtleEncrypt(enc.algorithm, enc.iv, enc.key, enc.plain)
       IN  IF ~sealed.ok
           THEN /\ enc' = [enc EXCEPT !.pc = "done", !.error = sealed.error]
                /\ UNCHANGED stored
           ELSE LET nameBytes == utf8Encode(enc.file.name)
                    mimeBytes == utf8Encode(TypeOrDefault(enc.file.type))
                    header == BuildHeader(enc.legacy, enc.algorithm, enc.salt, enc.iv,
                                          nameBytes, mimeBytes)
                    out == concatBytes(<<header, sealed.data>>)
                    name == getSuggestedEncName(enc.file.name)
                IN  /\ enc' = [enc EXCEPT
                                 !.pc = "done",
                                 !.cipherBuf = sealed.data,
                                 !.plain = Zeroed(enc.plain),
                                 !.blob = [bytes |-> out,
                                           type |-> BlobType(DEFAULT_MIME)],
                                 !.suggestedName = name]
                    \* downloadBlob(blob, suggestedName): the container is saved
                    /\ stored' = [name |-> name, bytes |-> out]
    /\ UNCHANGED <<dec, tamper, calls, page>>

\* line 208: the promise of crypto.subtle.encrypt rejects (the platform
\* could not carry the operation out). The await is in no try block: the
\* error leaves encryptFile at once and line 211 is not reached.
EncryptRejects ==
    /\ enc.pc = "seal"
    /\ enc' = [enc EXCEPT !.pc = "done", !.error = "OperationError"]
    /\ UNCHANGED <<dec, stored, tamper, calls, page>>

(***************************************************************************)
(* decryptFile, lines 234-305.                                             *)
(***************************************************************************)
\* lines 234-238: decryptFile is called with the stored container as its
\* File; file.arrayBuffer() is awaited
DecryptCall(password) ==
    /\ enc.pc = "done"
    /\ enc.error = ""
    /\ dec.pc = "idle"
    /\ dec' = [dec EXCEPT !.pc = "read", !.file = stored.bytes, !.password = password]
    /\ UNCHANGED <<enc, stored, tamper, calls, page>>

\* An earlier download is picked and decryptFile is called on it, whatever
\* encryptFile is doing meanwhile: decrypt/page.tsx line 21
DecryptCallStored(password) ==
    /\ stored.bytes # <<>>
    /\ dec.pc = "idle"
    /\ dec' = [dec EXCEPT !.pc = "read", !.file = stored.bytes, !.password = password]
    /\ UNCHANGED <<enc, stored, tamper, calls, page>>

\* lines 238-287: the header is decoded; a failed check throws, otherwise
\* deriveKeyForAlgo is called
DecryptParse ==
    /\ dec.pc = "read"
    /\ LET st == ParseContainer(dec.file)
       IN  IF st.error # ""
           THEN /\ dec' = [dec EXCEPT !.pc = "done", !.st = st, !.error = st.error]
                /\ UNCHANGED calls
           ELSE /\ dec' = [dec EXCEPT !.pc = "derive", !.st = st]
                /\ calls' = Append(calls, Call("decryptFile", "deriveKey", st.algorithm,
                                               st.algorithm, -1, -1))
    /\ UNCHANGED <<enc, stored, tamper, page>>

\* DecryptDerived with the derived key kept in one module-level variable
\* that every call uses once it is set
DecryptDerivedCachedKey ==
    /\ dec.pc = "derive"
    /\ LET key == IF enc.key # NoKey THEN enc.key
                  ELSE deriveKeyForAlgo(dec.password, dec.st.salt, dec.st.algorithm)
       IN  /\ dec' = [dec EXCEPT !.pc = "open", !.key = key]
           /\ calls' = Append(calls, Call("decryptFile", "decrypt", dec.st.algorithm,
                                          key.name, Len(dec.st.iv), Len(dec.st.ciphertext)))
    /\ UNCHANGED <<enc, stored, tamper, page>>

\* lines 287-291: the key is there, crypto.subtle.decrypt is called
DecryptDerived ==
    /\ dec.pc = "derive"
    /\ LET key == deriveKeyForAlgo(dec.password, dec.st.salt, dec.st.algorithm)
       IN  /\ dec' = [dec EXCEPT !.pc = "open", !.key = key]
           /\ calls' = Append(calls, Call("decryptFile", "decrypt", dec.st.algorithm,
                                          key.name, Len(dec.st.iv), Len(dec.st.ciphertext)))
    /\ UNCHANGED <<enc, stored, tamper, page>>

\* a catch that throws on what it caught
DecryptRethrow(thrown) == thrown

\* a catch that throws nothing
DecryptSwallow(thrown) == ""

\* lines 292-295: whatever crypto.subtle.decrypt threw, this is thrown
DecryptCatch(thrown) == ERR_DECRYPT

\* line 298
MimeOrDefault(mime) == IF mime = <<>> THEN DEFAULT_MIME ELSE mime

\* lines 291-304: decrypt has settled; on success the blob is built from
\* the plaintext, the plaintext buffer is zeroed and the result returned
DecryptSettle ==
    /\ dec.pc = "open"
    /\ LET opened == subtleDecrypt(dec.st.algorithm, dec.st.iv, dec.key, dec.st.ciphertext)
       IN  IF ~opened.ok
           THEN dec' = [dec EXCEPT !.pc = "done", !.thrown = opened.error,
                                   !.error = DecryptCatch(opened.error)]
           ELSE LET name == utf8Decode(dec.st.nameBytes)
                    mime == MimeOrDefault(utf8Decode(dec.st.mimeBytes))
                IN  dec' = [dec EXCEPT
                              !.pc = "done",
                              !.blob = [bytes |-> opened.data, type |-> BlobType(mime)],
                              !.plainBuf = Zeroed(opened.data),
                              !.suggestedName = name]
    /\ UNCHANGED <<enc, stored, tamper, calls, page>>

(***************************************************************************)
(* The environment: what may happen to a stored container before it is     *)
(* given to decryptFile.                                                   *)
(***************************************************************************)
Untouched == enc.pc = "done" /\ enc.error = "" /\ dec.pc = "idle"

\* first byte (0-based) of the ciphertext in the container encryptFile wrote
CiphertextStart == Len(enc.blob.bytes) - Len(enc.cipherBuf)

\* the file is cut to its first k bytes
Truncate(k) ==
    /\ Untouched
    /\ tamper.kind \in {"none", "set"}
    /\ Len(stored.bytes) <= MaxTamperLen
    /\ k < Len(stored.bytes)
    /\ stored' = [stored EXCEPT !.bytes = SubSeq(stored.bytes, 1, k)]
    /\ tamper' = [kind |-> IF tamper.kind = "set" THEN "set+truncate" ELSE "truncate",
                  at |-> k, bit |-> 0]
    /\ UNCHANGED <<enc, dec, calls, page>>

\* one bit of byte i (0-based) of the ciphertext region is flipped
FlipBit(i, bit) ==
    /\ Untouched
    /\ tamper.kind = "none"
    /\ Len(stored.bytes) <= MaxTamperLen
    /\ i >= CiphertextStart
    /\ i < Len(stored.bytes)
    /\ stored' = [stored EXCEPT !.bytes[i + 1] = XorByte(@, 2 ^ bit)]
    /\ tamper' = [kind |-> "flip", at |-> i, bit |-> bit]
    /\ UNCHANGED <<enc, dec, calls, page>>

\* byte i (0-based) of the header is overwritten
SetByte(i, v) ==
    /\ Untouched
    /\ tamper.kind = "none"
    /\ Len(stored.bytes) <= MaxTamperLen
    /\ i < Len(stored.bytes)
    /\ stored.bytes[i + 1] # v
    /\ stored' = [stored EXCEPT !.bytes[i + 1] = v]
    /\ tamper' = [kind |-> "set", at |-> i, bit |-> v]
    /\ UNCHANGED <<enc, dec, calls, page>>

\* every length a stored container can be cut to
CutPoints == IF Untouched THEN 0..(Len(stored.bytes) - 1) ELSE {}
\* every byte (0-based) of the ciphertext region of a stored container
FlipPoints == IF Untouched THEN CiphertextStart..(Len(stored.bytes) - 1) ELSE {}

Files == {File(n, t, b) : n \in Names, t \in Types, b \in Plains}

\* 65536 times "a": one byte more than a 16-bit length can say
LongName == [i \in 1..65536 |-> 97]
LongFile == File(LongName, <<116, 47, 112>>, <<104>>)

Salts == RandomBytes(SALT_BYTES)
Ivs == RandomBytes(GCM_IV_BYTES) \cup RandomBytes(CBC_IV_BYTES)

Decrypt ==
    \/ DecryptParse
    \/ DecryptDerived
    \/ DecryptSettle

Encrypt ==
    \/ EncryptDerived
    \/ EncryptRead
    \/ EncryptSettle

\* encryptFile may be called: the quantifiers below are only expanded then
Idle == enc.pc = "idle"

\* A file is encrypted (by the current or the legacy encoder) and the
\* container is decrypted, with the same or another password.
Next ==
    \/ /\ Idle
       /\ \E f \in Files, w \in Passwords, a \in Algorithm, legacy \in BOOLEAN,
             salt \in Salts, iv \in Ivs :
            EncryptCall(f, w, a, legacy, salt, iv)
    \/ /\ Idle
       /\ \E a \in Algorithm, w \in Passwords :
            EncryptCall(LongFile, w, a, FALSE, Fill(SALT_BYTES, 0), Fill(IvBytes(a), 0))
    \/ Encrypt
    \/ \E w \in Passwords : DecryptCall(w)
    \/ Decrypt

Spec == Init /\ [][Next]_vars

\* The files of the tampering specifications: names of 0, 1 and 3 bytes.
SmallNames == {<<>>, <<97>>, <<233, 97>>}
SmallPlains == {<<>>, <<104>>}
HeaderFiles == {File(n, t, b) : n \in SmallNames, t \in Types, b \in SmallPlains}
CipherFiles == {File(<<97>>, <<116, 47, 112>>, b) : b \in Plains}

\* The header bytes an edit may write: a wrong magic byte, the other
\* version digit, and algorithm bytes 0..3.
HeaderEdits ==
    {<<i, 0>> : i \in 0..3} \cup {<<3, 49>>, <<3, 50>>} \cup {<<4, v>> : v \in 0..3}

\* A container is written, then cut short (after at most one header byte
\* was overwritten), then decrypted.
NextTrunc ==
    \/ /\ Idle
       /\ \E f \in HeaderFiles, a \in Algorithm, legacy \in BOOLEAN :
            EncryptCall(f, <<112, 49>>, a, legacy,
                        Fill(SALT_BYTES, 165), Fill(IvBytes(a), 165))
    \/ Encrypt
    \/ \E e \in HeaderEdits : SetByte(e[1], e[2])
    \/ \E k \in CutPoints : Truncate(k)
    \/ DecryptCall(<<112, 49>>)
    \/ Decrypt

SpecTrunc == Init /\ [][NextTrunc]_vars

\* A container is written, one bit of its ciphertext region is flipped (or
\* none), then it is decrypted with the same or another password.
NextFlip ==
    \/ /\ Idle
       /\ \E f \in CipherFiles, w \in Passwords, a \in Algorithm, legacy \in BOOLEAN :
            EncryptCall(f, w, a, legacy, Fill(SALT_BYTES, 165), Fill(IvBytes(a), 0))
    \/ Encrypt
    \/ \E i \in FlipPoints, bit \in 0..7 : FlipBit(i, bit)
    \/ \E w \in Passwords : DecryptCall(w)
    \/ Decrypt

SpecFlip == Init /\ [][NextFlip]_vars

\* "", "a", "a.b" and "a.enc": no extension, an extension, ".enc" already
NameCases == {<<>>, <<97>>, <<97, 46, 98>>, <<97, 46, 101, 110, 99>>}
\* "x" and "a.b": what the downloaded container may be renamed to
ContainerNames == {<<120>>, <<97, 46, 98>>}

\* the downloaded container is renamed before it is picked for decryption
Rename(name) ==
    /\ Untouched
    /\ stored.name # name
    /\ stored' = [stored EXCEPT !.name = name]
    /\ UNCHANGED <<enc, dec, tamper, calls, page>>

\* A file is encrypted, the download is renamed (or not), then decrypted.
NextNames ==
    \/ /\ Idle
       /\ \E n \in NameCases, a \in Algorithm, legacy \in BOOLEAN :
            EncryptCall(File(n, <<116, 47, 112>>, <<104>>), <<112, 49>>, a, legacy,
                        Fill(SALT_BYTES, 165), Fill(IvBytes(a), 0))
    \/ Encrypt
    \/ \E n \in ContainerNames : Rename(n)
    \/ DecryptCall(<<112, 49>>)
    \/ Decrypt

SpecNames == Init /\ [][NextNames]_vars

\* A file of 0 to 17 bytes is encrypted by the current encoder, and the
\* cipher call may fail; the container is decrypted with either password.
NextFault ==
    \/ /\ Idle
       /\ \E f \in CipherFiles, a \in Algorithm, salt \in Salts :
            EncryptCall(f, <<112, 49>>, a, FALSE, salt, Fill(IvBytes(a), 165))
    \/ Encrypt
    \/ EncryptRejects
    \/ \E w \in Passwords : DecryptCall(w)
    \/ Decrypt

SpecFault == Init /\ [][NextFault]_vars

\* 16384 times U+10000, four UTF-8 bytes each: a name of 65536 bytes
WideName == [i \in 1..16384 |-> 65536]
WideFile == File(WideName, <<>>, <<>>)

\* A file with a name of 0 to 3 bytes, or of 65536 bytes, is encrypted by
\* the current encoder and its container is decrypted.
NextWide ==
    \/ /\ Idle
       /\ \E f \in HeaderFiles \cup {WideFile}, a \in Algorithm, salt \in Salts :
            EncryptCall(f, <<112, 49>>, a, FALSE, salt, Fill(IvBytes(a), 0))
    \/ Encrypt
    \/ DecryptCall(<<112, 49>>)
    \/ Decrypt

SpecWide == Init /\ [][NextWide]_vars

(***************************************************************************)
(* What a call returns when it runs alone, from its arguments and its own  *)
(* random values.                                                          *)
(***************************************************************************)
\* encryptFile, lines 194-231 (legacy: part_003 lines 291-326)
encryptFileAlone(file, password, algorithm, legacy, salt, iv) ==
    LET key    == deriveKeyForAlgo(password, salt, algorithm)
        sealed == subtleEncrypt(algorithm, iv, key, file.bytes)
        header == BuildHeader(legacy, algorithm, salt, iv, utf8Encode(file.name),
                              utf8Encode(TypeOrDefault(file.type)))
    IN  [error |-> sealed.error,
         blob |-> IF sealed.ok
                  THEN [bytes |-> concatBytes(<<header, sealed.data>>),
                        type |-> BlobType(DEFAULT_MIME)]
                  ELSE NoBlob,
         suggestedName |-> IF sealed.ok THEN getSuggestedEncName(file.name) ELSE <<>>]

\* decryptFile, lines 234-305
decryptFileAlone(buf, password) ==
    LET st == ParseContainer(buf)
    IN  IF st.error # "" THEN [error |-> st.error, blob |-> NoBlob, suggestedName |-> <<>>]
        ELSE LET key    == deriveKeyForAlgo(password, st.salt, st.algorithm)
                 opened == subtleDecrypt(st.algorithm, st.iv, key, st.ciphertext)
             IN  IF ~opened.ok
                 THEN [error |-> ERR_DECRYPT, blob |-> NoBlob, suggestedName |-> <<>>]
                 ELSE [error |-> "",
                       blob |-> [bytes |-> opened.data,
                                 type |-> BlobType(MimeOrDefault(utf8Decode(st.mimeBytes)))],
                       suggestedName |-> utf8Decode(st.nameBytes)]

\* the containers of a 1-byte file "a" that an earlier run downloaded
EarlierDownloads ==
    {[name |-> getSuggestedEncName(<<97>>),
      bytes |-> encryptFileAlone(File(<<97>>, <<116, 47, 112>>, <<104>>), <<112, 49>>, a,
                                 FALSE, Fill(SALT_BYTES, 165),
                                 Fill(IvBytes(a), 165)).blob.bytes] : a \in Algorithm}

InitConc ==
    /\ enc = EncIdle
    /\ dec = DecIdle
    /\ stored \in EarlierDownloads
    /\ tamper = NoTamper
    /\ calls = <<>>
    /\ page = PageIdle

\* An encryptFile call and a decryptFile call run at the same time: the
\* steps of the two between their awaits interleave in every order.
NextConc ==
    \/ /\ Idle
       /\ \E f \in CipherFiles, w \in Passwords, a \in Algorithm :
            EncryptCall(f, w, a, FALSE, Fill(SALT_BYTES, 0), Fill(IvBytes(a), 0))
    \/ Encrypt
    \/ \E w \in Passwords : DecryptCallStored(w)
    \/ Decrypt

SpecConc == InitConc /\ [][NextConc]_vars

(***************************************************************************)
(* The encrypt page (src/unnamed/part_001) and the decrypt page            *)
(* (src/app/decrypt/page.tsx).  A click runs the handler up to its await   *)
(* in one step, with the re-render React makes before the next event; the  *)
(* handler goes on in a later step, once the promise it awaits is settled. *)
(***************************************************************************)
Routes == {"home", "encrypt", "decrypt"}

\* part_001 lines 34-39, decrypt/page.tsx lines 43-48: the Home link, and
\* the links of the home page.  The page left is unmounted and the page
\* entered starts from its initial state.  The user leaves a page only
\* when its handler is not suspended.
Navigate(to) ==
    /\ ~page.awaiting
    /\ to # page.route
    /\ (page.route = "home") # (to = "home")
    /\ page' = [PageIdle EXCEPT !.route = to,
                                !.runs = page.runs,
                                !.downloads = page.downloads,
                                !.failures = page.failures,
                                !.saved = page.saved]
    /\ UNCHANGED <<enc, dec, stored, tamper, calls>>

\* the file of the encrypt page's file picker: "a", type "t/p", one byte
UiFiles == {File(<<97>>, <<116, 47, 112>>, <<104>>)}
\* a file that is no container: one byte, named "a"
NoContainer == [name |-> <<97>>, bytes |-> <<104>>]
\* what the decrypt page's file picker offers: the downloaded container, if
\* there is one, and a file that is no container
UiPicks == (IF stored.bytes = <<>> THEN {} ELSE {stored}) \cup {NoContainer}
\* what is typed into a passphrase field: nothing, "p1" or "p2"
UiPasswords == {<<>>} \cup Passwords

\* part_001 line 46, decrypt/page.tsx line 59: <FileDrop onFile={setFile}>
PickFile(f) ==
    /\ page.route \in {"encrypt", "decrypt"}
    /\ page.file # <<f>>
    /\ page' = [page EXCEPT !.file = <<f>>]
    /\ UNCHANGED <<enc, dec, stored, tamper, calls>>

\* part_001 line 62, decrypt/page.tsx line 73: onChange calls setPassword
TypePassword(w) ==
    /\ page.route \in {"encrypt", "decrypt"}
    /\ page.password # w
    /\ page' = [page EXCEPT !.password = w]
    /\ UNCHANGED <<enc, dec, stored, tamper, calls>>

\* part_001 line 72: onChange={e => setAlgorithm(e.target.value)}
SelectAlgorithm(a) ==
    /\ page.route = "encrypt"
    /\ page.algorithm # a
    /\ page' = [page EXCEPT !.algorithm = a]
    /\ UNCHANGED <<enc, dec, stored, tamper, calls>>

\* part_001 line 81, decrypt/page.tsx line 78:
\* disabled={!file || !password || busy}
Disabled == page.file = <<>> \/ page.password = <<>> \/ page.busy

\* part_001 lines 17-22: the button is clicked; handleEncrypt runs up to
\* its await, and encryptFile (fresh locals) up to its first await
handleEncrypt(salt, iv) ==
    /\ page.route = "encrypt"
    /\ ~Disabled
    /\ page.runs < MaxRuns
    /\ IF page.file = <<>> \/ page.password = <<>>
       THEN UNCHANGED vars
       ELSE /\ page' = [page EXCEPT !.busy = TRUE, !.error = NoError,
                                    !.awaiting = TRUE, !.runs = @ + 1]
            /\ enc' = [EncIdle EXCEPT !.pc = "derive",
                                      !.file = page.file[1],
                                      !.password = page.password,
                                      !.algorithm = page.algorithm,
                                      !.salt = salt, !.iv = iv]
            /\ calls' = Append(calls, Call("encryptFile", "deriveKey", page.algorithm,
                                           page.algorithm, -1, -1))
            /\ UNCHANGED <<dec, stored, tamper>>

\* part_001 line 25: (e as Error)?.message || "Encryption failed"
EncryptionMessage(message) == IF message = "" THEN "Encryption failed" ELSE message

\* setBusy(false) in the try block only: busy stays set after a catch
BusyUnlessCaught(failed) == failed

\* part_001 lines 26-28, decrypt/page.tsx lines 33-35: finally { setBusy(false) }
BusyAfterFinally(failed) == FALSE

\* part_001 lines 22-28: the promise of encryptFile is settled and
\* handleEncrypt goes on: downloadBlob, or catch and setError, then finally
handleEncryptSettled ==
    /\ page.route = "encrypt"
    /\ page.awaiting
    /\ enc.pc = "done"
    /\ IF enc.error = ""
       THEN /\ page' = [page EXCEPT
                          !.awaiting = FALSE,
                          !.busy = BusyAfterFinally(FALSE),
                          !.downloads = @ + 1,
                          !.saved = <<[name |-> enc.suggestedName,
                                       bytes |-> enc.blob.bytes]>>]
            /\ stored' = [name |-> enc.suggestedName, bytes |-> enc.blob.bytes]
       ELSE /\ page' = [page EXCEPT
                          !.awaiting = FALSE,
                          !.busy = BusyAfterFinally(TRUE),
                          !.error = EncryptionMessage(enc.error),
                          !.failures = @ + 1]
            /\ UNCHANGED stored
    /\ UNCHANGED <<enc, dec, tamper, calls>>

\* decrypt/page.tsx lines 16-21: the button is clicked; handleDecrypt runs
\* up to its await, and decryptFile (fresh locals) up to its first await
handleDecrypt ==
    /\ page.route = "decrypt"
    /\ ~Disabled
    /\ page.runs < MaxRuns
    /\ IF page.file = <<>> \/ page.password = <<>>
       THEN UNCHANGED vars
       ELSE /\ page' = [page EXCEPT !.busy = TRUE, !.error = NoError,
                                    !.awaiting = TRUE, !.runs = @ + 1]
            /\ dec' = [DecIdle EXCEPT !.pc = "read",
                                      !.file = page.file[1].bytes,
                                      !.password = page.password]
            /\ UNCHANGED <<enc, stored, tamper, calls>>

\* decrypt/page.tsx lines 24-30: the message of the Error caught, or
\* "Decryption failed"; /operation failed|decrypt/i matches the default
\* message and none of the messages decryptFile throws
FriendlyMessage(message) ==
    LET msg == IF message = "" THEN "Decryption failed" ELSE message
    IN  IF msg = "Decryption failed" THEN ERR_DECRYPT ELSE msg

\* decrypt/page.tsx lines 21-35: the promise of decryptFile is settled and
\* handleDecrypt goes on: downloadBlob, or catch and setError, then finally
handleDecryptSettled ==
    /\ page.route = "decrypt"
    /\ page.awaiting
    /\ dec.pc = "done"
    /\ page' = IF dec.error = ""
               THEN [page EXCEPT
                       !.awaiting = FALSE,
                       !.busy = BusyAfterFinally(FALSE),
                       !.downloads = @ + 1,
                       !.saved = <<[name |-> dec.suggestedName,
                                    bytes |-> dec.blob.bytes]>>]
               ELSE [page EXCEPT
                       !.awaiting = FALSE,
                       !.busy = BusyAfterFinally(TRUE),
                       !.error = FriendlyMessage(dec.error),
                       !.failures = @ + 1]
    /\ UNCHANGED <<enc, dec, stored, tamper, calls>>

\* The pages are visited and used, one operation after another.
NextPages ==
    \/ \E to \in Routes : Navigate(to)
    \/ /\ page.route = "encrypt"
       /\ \E f \in UiFiles : PickFile(f)
    \/ /\ page.route = "decrypt"
       /\ \E f \in UiPicks : PickFile([name |-> f.name, bytes |-> f.bytes])
    \/ \E w \in UiPasswords : TypePassword(w)
    \/ \E a \in Algorithm : SelectAlgorithm(a)
    \/ handleEncrypt(Fill(SALT_BYTES, 165), Fill(IvBytes(page.algorithm), 165))
    \/ Encrypt
    \/ EncryptRejects
    \/ handleEncryptSettled
    \/ handleDecrypt
    \/ Decrypt
    \/ handleDecryptSettled

SpecPagesSafe == Init /\ [][NextPages]_vars

\* The event loop runs every continuation that is ready: a settled
\* promise resumes the function that awaits it.  DecryptParse is enabled
\* exactly while decryptFile is at "read" and leaves that position, so its
\* weak fairness is that the call is not at "read" forever.
FairPages ==
    /\ WF_vars(EncryptRejects \/ Encrypt)
    /\ WF_vars(handleEncryptSettled)
    /\ []<>(dec.pc # "read")
    /\ WF_vars(DecryptDerived \/ DecryptSettle)
    /\ WF_vars(handleDecryptSettled)

SpecPages == SpecPagesSafe /\ FairPages

(***************************************************************************)
(* Properties.                                                             *)
(***************************************************************************)
Untampered == tamper.kind = "none"
DecDone == dec.pc = "done"
SamePassword == dec.password = enc.password

\* a string TextEncoder and TextDecoder take there and back unchanged
WellFormed(s) ==
    /\ \A i \in 1..Len(s) : ~IsSurrogate(s[i])
    /\ Len(s) = 0 \/ s[1] # 65279

\* a string whose UTF-8 length a 16-bit prefix can say
FitsU16(s) == Len(s) <= 65535 /\ Len(utf8Encode(s)) <= 65535

\* the current encoder's container was decrypted, as written, with the
\* password it was encrypted with
RoundTripDone == DecDone /\ ~enc.legacy /\ Untampered /\ SamePassword

\* C1: round trip. For every plaintext, algorithm, password, file name and
\* MIME string, decryptFile(encryptFile(...)) with the same password
\* succeeds and returns the bytes, the name and the MIME type that went in
\* (the empty MIME type read as the header stores it: the generic binary
\* type).
C1_RoundTripEveryInput ==
    RoundTripDone =>
        /\ dec.error = ""
        /\ dec.blob.bytes = enc.file.bytes
        /\ dec.suggestedName = enc.file.name
        /\ dec.blob.type = TypeOrDefault(enc.file.type)

\* What does hold of the round trip (C1): it returns the bytes, the name
\* and the MIME type whenever the name has no unpaired surrogate and no
\* leading U+FEFF and takes at most 65535 bytes of UTF-8.
RoundTripWellFormed ==
    ( /\ RoundTripDone
      /\ WellFormed(enc.file.name)
      /\ FitsU16(enc.file.name)
      /\ FitsU16(TypeOrDefault(enc.file.type)) ) =>
        /\ dec.error = ""
        /\ dec.blob.bytes = enc.file.bytes
        /\ dec.suggestedName = enc.file.name
        /\ dec.blob.type = TypeOrDefault(enc.file.type)

\* the container was cut short, and nothing else was done to it
Truncated == tamper.kind = "truncate"

\* every byte range the decoder asked for lies inside the buffer
ReadsInBounds ==
    \A i \in 1..Len(dec.st.reads) :
        /\ 0 <= dec.st.reads[i][2]
        /\ dec.st.reads[i][2] <= dec.st.reads[i][3]
        /\ dec.st.reads[i][3] <= Len(stored.bytes)

\* C2: truncation safety. decryptFile on a valid container cut at any
\* point fails with a taxonomy error (InvalidFormat, CorruptField(name),
\* CorruptField(MIME) or CiphertextTooSmall; a cut that leaves 16 bytes or
\* more of ciphertext may also end in DecryptionFailed) and never asks for
\* a byte at or beyond the buffer length.
C2_TruncationSafety ==
    (Truncated /\ DecDone) =>
        /\ Taxonomy(dec.error) \in {"InvalidFormat", "CorruptField(name)",
                                    "CorruptField(MIME)", "CiphertextTooSmall",
                                    "DecryptionFailed"}
        /\ Taxonomy(dec.error) = "DecryptionFailed" =>
               Len(dec.st.ciphertext) >= MIN_CIPHERTEXT
        /\ ReadsInBounds

\* one bit of the ciphertext region was flipped, and nothing else
Flipped == tamper.kind = "flip"

\* nothing of a result has been handed to the caller
NothingReturned == dec.blob = NoBlob /\ dec.suggestedName = <<>> /\ dec.plainBuf = <<>>

\* C3: tamper detection. For a container written with AES-GCM (by the
\* current or the legacy encoder), after any single bit of the ciphertext
\* region (ciphertext and tag) is flipped, decryptFile with the right
\* password fails with DecryptionFailed and returns no plaintext.
C3_TamperDetection ==
    (Flipped /\ DecDone /\ enc.algorithm = "AES-GCM" /\ SamePassword) =>
        /\ dec.error = ERR_DECRYPT
        /\ NothingReturned

\* the top bit of the first ciphertext byte of a 17-byte file was flipped
C3_Witness ==
    /\ Flipped /\ DecDone /\ SamePassword
    /\ enc.algorithm = "AES-GCM" /\ ~enc.legacy
    /\ Len(enc.file.bytes) = BLOCK_BYTES + 1
    /\ tamper.at = CiphertextStart /\ tamper.bit = 7
    /\ dec.thrown = "OperationError"

FieldsRead == [i \in 1..Len(dec.st.reads) |-> dec.st.reads[i][1]]

\* the crypto.subtle calls decryptFile made
DecryptCalls == SelectSeq(calls, LAMBDA c : c.by = "decryptFile")

MinLegacyHeader == Len(MAGIC_V1) + SALT_BYTES + GCM_IV_BYTES + 2 + 2

StartsWith(buf, magic) == Len(buf) >= Len(magic) /\ SubSeq(buf, 1, Len(magic)) = magic

\* the buffer starts with "SFE2" and a byte that names no algorithm follows
UnknownAlgorithm(buf) ==
    /\ StartsWith(buf, MAGIC_V2)
    /\ Len(buf) >= Len(MAGIC_V2) + 1
    /\ buf[Len(MAGIC_V2) + 1] \notin {ALG_BYTE(a) : a \in Algorithm}

\* C6 as stated: minimum-length rejection. Every buffer shorter than 36
\* bytes is rejected with InvalidFormat (before the magic, the algorithm
\* byte or any other field is interpreted), so none ends in
\* UnsupportedAlgorithm, CorruptField or CiphertextTooSmall.
C6_ShortIsInvalidFormat ==
    (DecDone /\ Len(stored.bytes) < MinLegacyHeader) =>
        Taxonomy(dec.error) = "InvalidFormat"

\* C6 amended: every buffer shorter than 36 bytes is rejected before salt,
\* IV, name, MIME type or ciphertext is read and before any key derivation
\* or cipher call; a buffer shorter than 4 bytes before the magic is read.
\* The error is InvalidFormat, except that a buffer of 21 to 35 bytes that
\* starts with "SFE2" and an unknown algorithm byte ends in
\* UnsupportedAlgorithm. None ends in CorruptField or CiphertextTooSmall.
C6_ShortIsRejected ==
    (DecDone /\ Len(stored.bytes) < MinLegacyHeader) =>
        /\ Taxonomy(dec.error) \in {"InvalidFormat", "UnsupportedAlgorithm"}
        /\ Taxonomy(dec.error) = "UnsupportedAlgorithm" <=>
              (UnknownAlgorithm(stored.bytes)
                 /\ Len(stored.bytes) >= Len(MAGIC_V2) + 1 + SALT_BYTES)
        /\ \A i \in 1..Len(FieldsRead) : FieldsRead[i] \in {"magic", "algorithm"}
        /\ Len(stored.bytes) < 4 => dec.st.reads = <<>>
        /\ DecryptCalls = <<>>
        /\ dec.key = NoKey
        /\ NothingReturned

\* a legacy container cut to 35 bytes was rejected after its magic was read
C6_Witness ==
    /\ DecDone /\ Truncated
    /\ Len(stored.bytes) = MinLegacyHeader - 1
    /\ StartsWith(stored.bytes, MAGIC_V1)
    /\ dec.error = ERR_TOO_SMALL
    /\ FieldsRead = <<"magic">>

\* C7 as stated: version and algorithm detection. A buffer whose first 4
\* bytes are neither "SFE1" nor "SFE2" fails with InvalidFormat; a buffer
\* that starts with "SFE2" and an algorithm byte other than 0x01 and 0x02
\* fails with UnsupportedAlgorithm, whatever follows.
C7_DetectionWhateverFollows ==
    DecDone =>
        /\ ( /\ Len(stored.bytes) >= 4
             /\ ~StartsWith(stored.bytes, MAGIC_V1)
             /\ ~StartsWith(stored.bytes, MAGIC_V2) ) =>
               Taxonomy(dec.error) = "InvalidFormat"
        /\ UnknownAlgorithm(stored.bytes) =>
               Taxonomy(dec.error) = "UnsupportedAlgorithm"

\* C7 amended: a buffer whose first 4 bytes are neither "SFE1" nor "SFE2"
\* fails with InvalidFormat ("Invalid file header."); a buffer of at least
\* 21 bytes (4 + 1 + 16) that starts with "SFE2" and an algorithm byte
\* other than 0x01 and 0x02 fails with UnsupportedAlgorithm, whatever
\* follows; a shorter buffer that starts with "SFE2" fails with
\* InvalidFormat ("Invalid header.") before its algorithm byte is read.
C7_Detection ==
    DecDone =>
        /\ ( /\ Len(stored.bytes) >= 4
             /\ ~StartsWith(stored.bytes, MAGIC_V1)
             /\ ~StartsWith(stored.bytes, MAGIC_V2) ) =>
               dec.error = ERR_MAGIC /\ FieldsRead = <<"magic">>
        /\ ( /\ UnknownAlgorithm(stored.bytes)
             /\ Len(stored.bytes) >= Len(MAGIC_V2) + 1 + SALT_BYTES ) =>
               dec.error = ERR_ALGORITHM /\ FieldsRead = <<"magic", "algorithm">>
        /\ ( /\ StartsWith(stored.bytes, MAGIC_V2)
             /\ Len(stored.bytes) < Len(MAGIC_V2) + 1 + SALT_BYTES ) =>
               dec.error = ERR_HEADER /\ FieldsRead = <<"magic">>

\* an "SFE2" buffer of exactly 21 bytes with algorithm byte 3 was rejected
C7_Witness ==
    /\ DecDone
    /\ tamper.kind = "set+truncate"
    /\ UnknownAlgorithm(stored.bytes)
    /\ stored.bytes[5] = 3
    /\ Len(stored.bytes) = Len(MAGIC_V2) + 1 + SALT_BYTES
    /\ dec.error = ERR_ALGORITHM

\* where the header says the name's length prefix is (0-based)
NameLenAt == (IF dec.st.isV2 THEN 5 ELSE 4) + SALT_BYTES + dec.st.ivLen
\* where the MIME type's length prefix is, once the name was taken
MimeLenAt == NameLenAt + 2 + dec.st.nameLen

NameLenRead == dec.st.nameLen >= 0
MimeLenRead == dec.st.mimeLen >= 0

\* C8: CorruptField. When the length declared for the name exceeds the
\* bytes that remain after its prefix, decryptFile fails with
\* CorruptField(name), and only then; when the length declared for the
\* MIME type exceeds the bytes that remain after its prefix, it fails with
\* CorruptField(MIME), and only then; the field is not sliced and nothing
\* after it is read.
C8_CorruptField ==
    DecDone =>
        /\ NameLenRead =>
              /\ dec.st.nameLen = readU16(stored.bytes, NameLenAt)
              /\ (dec.st.nameLen > Len(stored.bytes) - (NameLenAt + 2))
                    <=> dec.error = ERR_NAME
        /\ dec.error = ERR_NAME =>
              /\ NameLenRead
              /\ dec.st.nameBytes = <<>>
              /\ FieldsRead[Len(FieldsRead)] = "nameLen"
        /\ MimeLenRead =>
              /\ dec.st.mimeLen = readU16(stored.bytes, MimeLenAt)
              /\ (dec.st.mimeLen > Len(stored.bytes) - (MimeLenAt + 2))
                    <=> dec.error = ERR_MIME
        /\ dec.error = ERR_MIME =>
              /\ MimeLenRead
              /\ dec.st.mimeBytes = <<>>
              /\ FieldsRead[Len(FieldsRead)] = "mimeLen"

\* a container was cut one byte before the end of its MIME type
C8_Witness ==
    /\ DecDone /\ Truncated
    /\ MimeLenRead
    /\ dec.st.mimeLen = Len(stored.bytes) - (MimeLenAt + 2) + 1
    /\ dec.error = ERR_MIME

\* the decoder took the whole header and came to the ciphertext
HeaderTaken == dec.st.stage \in {"ExpectCiphertext", "Done"}
HeaderEnd == MimeLenAt + 2 + dec.st.mimeLen

\* C9: ciphertext minimum before cipher. If fewer than 16 bytes remain
\* after the header, decryptFile fails with CiphertextTooSmall before it
\* derives a key or calls the cipher; crypto.subtle.decrypt is only ever
\* called on 16 bytes or more.
C9_CiphertextMinimum ==
    /\ (HeaderTaken /\ Len(stored.bytes) - HeaderEnd < MIN_CIPHERTEXT) =>
          /\ dec.pc = "done"
          /\ dec.error = ERR_CIPHERTEXT
          /\ DecryptCalls = <<>>
          /\ dec.key = NoKey
    /\ dec.error = ERR_CIPHERTEXT =>
          (HeaderTaken /\ Len(stored.bytes) - HeaderEnd < MIN_CIPHERTEXT)
    /\ \A i \in 1..Len(DecryptCalls) :
          DecryptCalls[i].op = "decrypt" => DecryptCalls[i].dataLen >= MIN_CIPHERTEXT
    /\ dec.pc \in {"derive", "open"} => Len(dec.st.ciphertext) >= MIN_CIPHERTEXT

\* a container cut to 15 bytes of ciphertext was rejected, no call made
C9_Witness ==
    /\ DecDone /\ Truncated
    /\ HeaderTaken
    /\ Len(stored.bytes) - HeaderEnd = MIN_CIPHERTEXT - 1
    /\ dec.error = ERR_CIPHERTEXT
    /\ DecryptCalls = <<>>

\* C10: merged decrypt failure. Whatever makes crypto.subtle.decrypt fail
\* (wrong password, flipped ciphertext or tag, malformed AES-CBC padding),
\* decryptFile throws the same DecryptionFailed error and returns nothing:
\* the error does not depend on the cause.
C10_MergedFailure ==
    (DecDone /\ dec.thrown # "") =>
        /\ dec.error = ERR_DECRYPT
        /\ NothingReturned

\* AES-CBC with the right password: a flipped bit in the last block broke
\* the padding
C10_Witness ==
    /\ DecDone /\ Flipped /\ SamePassword
    /\ enc.algorithm = "AES-CBC"
    /\ tamper.at = Len(stored.bytes) - 1
    /\ dec.thrown = "OperationError"
    /\ dec.error = ERR_DECRYPT

EncDone == enc.pc = "done"

\* C11: no partial output on failure. A finished encryptFile or decryptFile
\* call has either its complete result or an error, never both and never
\* neither; a decryptFile call that failed at any step (format, algorithm,
\* field, ciphertext size, cipher) has returned no plaintext bytes, no
\* name and no MIME type, and nothing is returned before the call is done.
C11_ResultOrError ==
    /\ EncDone =>
          IF enc.error # ""
          THEN enc.blob = NoBlob /\ enc.suggestedName = <<>>
          ELSE /\ Len(enc.blob.bytes) > Len(enc.cipherBuf)
               /\ enc.suggestedName # <<>>
    /\ ~EncDone => (enc.blob = NoBlob /\ enc.suggestedName = <<>>)
    /\ DecDone =>
          IF dec.error # ""
          THEN NothingReturned
          ELSE /\ dec.thrown = ""
               /\ dec.st.stage = "Done"
               /\ dec.blob.type # <<>>
               /\ Len(dec.plainBuf) = Len(dec.blob.bytes)
    /\ ~DecDone => NothingReturned

\* a container cut inside its ciphertext failed at the cipher, after name
\* and MIME type were decoded: the caller got the error alone
C11_Witness ==
    /\ DecDone /\ Truncated
    /\ dec.thrown = "OperationError"
    /\ dec.error = ERR_DECRYPT
    /\ dec.st.nameBytes # <<>>
    /\ NothingReturned

\* the current encryptFile (not the legacy encoder) has returned its container
Encrypted == EncDone /\ ~enc.legacy /\ enc.error = ""

\* bytes from..to-1 (0-based) of the container encryptFile returned
OutBytes(from, to) == SubSeq(enc.blob.bytes, from + 1, to)

\* the crypto.subtle calls encryptFile made
EncryptCalls == SelectSeq(calls, LAMBDA c : c.by = "encryptFile")

\* C12: encrypt output layout. Every container encryptFile returns is in the
\* current format: "SFE2", one algorithm byte (0x01 for AES-GCM, 0x02 for
\* AES-CBC) naming the algorithm the cipher was called with, the 16-byte
\* salt, the IV (12 bytes for AES-GCM, 16 for AES-CBC), a 2-byte prefix and
\* the name, a 2-byte prefix and the MIME type, then the ciphertext and
\* nothing more; it never starts with "SFE1".
C12_OutputLayout ==
    Encrypted =>
        LET ivLen == IF enc.algorithm = "AES-GCM" THEN 12 ELSE 16
            nameBytes == utf8Encode(enc.file.name)
            mimeBytes == utf8Encode(TypeOrDefault(enc.file.type))
            nameAt == 4 + 1 + 16 + ivLen + 2
            mimeAt == nameAt + Len(nameBytes) + 2
            cipherAt == mimeAt + Len(mimeBytes)
        IN  /\ OutBytes(0, 4) = <<83, 70, 69, 50>>
            /\ OutBytes(4, 5) = <<IF enc.algorithm = "AES-GCM" THEN 1 ELSE 2>>
            /\ \A i \in 1..Len(EncryptCalls) : EncryptCalls[i].name = enc.algorithm
            /\ EncryptCalls[Len(EncryptCalls)].op = "encrypt"
            /\ Len(enc.salt) = 16 /\ OutBytes(5, 21) = enc.salt
            /\ Len(enc.iv) = ivLen /\ OutBytes(21, 21 + ivLen) = enc.iv
            /\ OutBytes(nameAt, nameAt + Len(nameBytes)) = nameBytes
            /\ OutBytes(mimeAt, mimeAt + Len(mimeBytes)) = mimeBytes
            /\ OutBytes(cipherAt, Len(enc.blob.bytes)) = enc.cipherBuf
            /\ Len(enc.blob.bytes) = cipherAt + Len(enc.cipherBuf)
            /\ enc.blob.type = DEFAULT_MIME

\* a 16-byte file named "éa" was written as an AES-CBC container
C12_Witness ==
    /\ Encrypted
    /\ enc.algorithm = "AES-CBC"
    /\ enc.file = File(<<233, 97>>, <<116, 47, 112>>, Fill(BLOCK_BYTES, 1))
    /\ OutBytes(0, 5) = <<83, 70, 69, 50, 2>>
    /\ OutBytes(37, 39) = <<0, 3>>

CallOrder == [i \in 1..Len(calls) |-> calls[i].by]

\* C14: call independence under concurrency. With an encryptFile call and
\* a decryptFile call in flight at the same time, in every interleaving of
\* their suspension points each call uses its own salt, IV and key, and
\* its result or error is the one the call gives when it runs alone on the
\* same arguments.
C14_CallIndependence ==
    /\ enc.key # NoKey =>
          enc.key = deriveKeyForAlgo(enc.password, enc.salt, enc.algorithm)
    /\ dec.key # NoKey =>
          /\ dec.st = ParseContainer(dec.file)
          /\ dec.key = deriveKeyForAlgo(dec.password, dec.st.salt, dec.st.algorithm)
    /\ EncDone =>
          [error |-> enc.error, blob |-> enc.blob, suggestedName |-> enc.suggestedName]
            = encryptFileAlone(enc.file, enc.password, enc.algorithm, enc.legacy,
                               enc.salt, enc.iv)
    /\ DecDone =>
          [error |-> dec.error, blob |-> dec.blob, suggestedName |-> dec.suggestedName]
            = decryptFileAlone(dec.file, dec.password)

\* the two calls took turns at every await, and decryptFile recovered the
\* earlier file while encryptFile wrote another one under another password
C14_Witness ==
    /\ EncDone /\ DecDone
    /\ CallOrder = <<"encryptFile", "decryptFile", "encryptFile", "decryptFile">>
    /\ enc.password # dec.password
    /\ dec.file # enc.blob.bytes
    /\ dec.error = ""
    /\ dec.blob.bytes = <<104>>
    /\ dec.suggestedName = <<97>>

\* C15: suggested names. encryptFile's suggestedName is the file's name
\* followed by ".enc", for every name (also one that ends in ".enc" or has
\* no extension); decryptFile's suggestedName is the name stored in the
\* header, whatever the container file given to it is called.
C15_SuggestedNames ==
    /\ (EncDone /\ enc.error = "") =>
          /\ enc.suggestedName = enc.file.name \o <<46, 101, 110, 99>>
          /\ Len(enc.suggestedName) = Len(enc.file.name) + 4
    /\ (DecDone /\ dec.error = "") =>
          /\ dec.suggestedName = utf8Decode(dec.st.nameBytes)
          /\ dec.st.nameBytes =
                SubSeq(dec.file, NameLenAt + 2 + 1, NameLenAt + 2 + dec.st.nameLen)
          /\ (Untampered /\ WellFormed(enc.file.name) /\ FitsU16(enc.file.name)) =>
                dec.suggestedName = enc.file.name

\* "a.enc" became "a.enc.enc", the download was renamed to "x", and
\* decryptFile suggested "a.enc"
C15_Witness ==
    /\ DecDone /\ dec.error = ""
    /\ enc.file.name = <<97, 46, 101, 110, 99>>
    /\ enc.suggestedName = <<97, 46, 101, 110, 99, 46, 101, 110, 99>>
    /\ stored.name = <<120>>
    /\ dec.suggestedName = <<97, 46, 101, 110, 99>>

\* C16: length check strictly before read. For every buffer decryptFile is
\* given, every read it makes lies inside the buffer because a check came
\* first (also the 2-byte reads of the name and MIME length prefixes,
\* whatever name length was declared), and a failed check ends in one of
\* the taxonomy errors, never in an out-of-bounds access.
C16_CheckBeforeRead ==
    DecDone =>
        /\ \A i \in 1..Len(dec.st.reads) : dec.st.reads[i][3] <= Len(dec.file)
        /\ dec.error # ERR_RANGE
        /\ dec.error # "" => Taxonomy(dec.error) # "none"

\* the fields of a container in the order of its layout
FieldOrder(isV1) ==
    <<"magic">> \o (IF isV1 THEN <<>> ELSE <<"algorithm">>)
      \o <<"salt", "iv", "nameLen", "name", "mimeLen", "mime", "ciphertext">>

\* C17: linear decode order. decryptFile takes the container in the order
\* magic, algorithm byte (current version only), salt, IV, name length,
\* name, MIME length, MIME, ciphertext: every read starts where the one
\* before ended (the offset never goes back, no byte is read for two
\* fields, none is skipped), on success the reads cover the buffer exactly,
\* and the first failed check is the end: nothing is read, derived or
\* decrypted after it.
C17_LinearDecode ==
    LET r == dec.st.reads
    IN  /\ r # <<>> => r[1] = <<"magic", 0, 4>>
        /\ \A i \in 1..Len(r) : r[i][2] <= r[i][3]
        /\ \A i \in 1..(Len(r) - 1) : r[i + 1][2] = r[i][3]
        /\ Len(r) <= Len(FieldOrder(dec.st.isV1))
        /\ FieldsRead = SubSeq(FieldOrder(dec.st.isV1), 1, Len(r))
        /\ dec.st.stage = "Done" =>
              /\ dec.st.error = ""
              /\ Len(r) = Len(FieldOrder(dec.st.isV1))
              /\ r[Len(r)][3] = Len(dec.file)
              /\ dec.st.off = Len(dec.file)
        /\ dec.st.error # "" =>
              /\ dec.pc = "done"
              /\ dec.error = dec.st.error
              /\ dec.st.stage # "Done"
              /\ dec.st.ciphertext = <<>> \/ dec.st.error = ERR_CIPHERTEXT
              /\ DecryptCalls = <<>>
              /\ dec.key = NoKey

\* a current AES-GCM container that lost its last byte was read field by
\* field up to the 16 bytes left of its ciphertext
C17_Witness ==
    /\ DecDone /\ Truncated
    /\ dec.st.stage = "Done"
    /\ dec.st.algorithm = "AES-GCM"
    /\ dec.st.nameLen = 3
    /\ FieldsRead = FieldOrder(FALSE)
    /\ dec.st.reads[Len(dec.st.reads)] = <<"ciphertext", 43, 59>>
    /\ Len(dec.file) = 59
\* buf holds zeros only
AllZero(buf) == \A i \in 1..Len(buf) : buf[i] = 0

\* C18 as stated: plaintext zeroing on every exit path. Whenever an
\* encryptFile or decryptFile call that holds a plaintext buffer completes,
\* by success or by error, the buffer holds zeros.
C18_ZeroedOnEveryExit ==
    /\ EncDone => AllZero(enc.plain)
    /\ DecDone => AllZero(dec.plainBuf)

\* C18, amended: plaintext zeroing on success. The plaintext buffer of
\* encryptFile holds the file while the cipher call runs and holds zeros,
\* at its full length, once the call has returned its container, whose
\* ciphertext was made from the file's bytes; when the cipher call fails
\* the buffer keeps the file's bytes. decryptFile has a plaintext buffer
\* only when the cipher call succeeded: then the returned blob holds what
\* the cipher call gave and the buffer holds as many zeros.
C18_ZeroedOnSuccess ==
    /\ enc.pc = "seal" => enc.plain = enc.file.bytes
    /\ (EncDone /\ enc.error = "") =>
          /\ Len(enc.plain) = Len(enc.file.bytes)
          /\ AllZero(enc.plain)
          /\ enc.cipherBuf =
               subtleEncrypt(enc.algorithm, enc.iv, enc.key, enc.file.bytes).data
    /\ (EncDone /\ enc.error # "") => enc.plain = enc.file.bytes
    /\ (DecDone /\ dec.error = "") =>
          /\ Len(dec.plainBuf) = Len(dec.blob.bytes)
          /\ AllZero(dec.plainBuf)
          /\ dec.blob.bytes =
               subtleDecrypt(dec.st.algorithm, dec.st.iv, dec.key, dec.st.ciphertext).data
    /\ (~DecDone \/ dec.error # "") => dec.plainBuf = <<>>

\* a file of 17 bytes went through both calls: both buffers are 17 zeros
\* and the blob returned holds the file
C18_Witness ==
    /\ EncDone /\ enc.error = ""
    /\ Len(enc.file.bytes) = BLOCK_BYTES + 1
    /\ enc.plain = Fill(BLOCK_BYTES + 1, 0)
    /\ DecDone /\ dec.error = ""
    /\ dec.blob.bytes = enc.file.bytes
    /\ dec.plainBuf = Fill(BLOCK_BYTES + 1, 0)

\* where encryptFile writes the length prefix of the name
WrittenNameLenAt == 4 + 1 + SALT_BYTES + IvBytes(enc.algorithm)

\* C19: length prefix matches field. In every container produced by
\* encryptFile the 16-bit big-endian value written as nameLen is the number
\* of UTF-8 bytes of the name written after it, and the value written as
\* mimeLen is the number of MIME bytes written after it, whatever the
\* lengths are, 65536 bytes and more included.
C19_LengthPrefixMatches ==
    Encrypted =>
        LET nameBytes == utf8Encode(enc.file.name)
            mimeBytes == utf8Encode(TypeOrDefault(enc.file.type))
            mimeLenAt == WrittenNameLenAt + 2 + Len(nameBytes)
        IN  /\ OutBytes(WrittenNameLenAt + 2, mimeLenAt) = nameBytes
            /\ OutBytes(mimeLenAt + 2, mimeLenAt + 2 + Len(mimeBytes)) = mimeBytes
            /\ readU16(enc.blob.bytes, WrittenNameLenAt) = Len(nameBytes)
            /\ readU16(enc.blob.bytes, mimeLenAt) = Len(mimeBytes)

\* the errors of the checks decryptFile makes before it derives a key
ValidationErrors ==
    {"InvalidFormat", "UnsupportedAlgorithm", "CorruptField(name)",
     "CorruptField(MIME)", "CiphertextTooSmall"}

\* C20: encrypt output always passes decode validation. For every plaintext
\* length and either algorithm the ciphertext region of the container
\* encryptFile returns is plaintext length + 16 bytes long for AES-GCM and
\* the next multiple of 16 strictly above the plaintext length for AES-CBC,
\* so 16 bytes at least; decryptFile on the unmodified container reads
\* every field up to the ciphertext and calls the cipher, and so never
\* fails with InvalidFormat, UnsupportedAlgorithm, CorruptField or
\* CiphertextTooSmall (nor with a RangeError), whatever the password.
C20_OutputPassesValidation ==
    Encrypted =>
        /\ Len(enc.cipherBuf) =
             IF enc.algorithm = "AES-GCM"
             THEN Len(enc.file.bytes) + TAG_BYTES
             ELSE ((Len(enc.file.bytes) \div BLOCK_BYTES) + 1) * BLOCK_BYTES
        /\ Len(enc.cipherBuf) >= MIN_CIPHERTEXT
        /\ OutBytes(CiphertextStart, Len(enc.blob.bytes)) = enc.cipherBuf
        /\ (DecDone /\ Untampered) =>
              /\ Taxonomy(dec.error) \notin ValidationErrors
              /\ dec.error # ERR_RANGE
              /\ dec.st.stage = "Done"
              /\ Len(dec.st.ciphertext) >= MIN_CIPHERTEXT
              /\ \E i \in 1..Len(DecryptCalls) : DecryptCalls[i].op = "decrypt"

\* the AES-CBC container of an empty file, one block of ciphertext, went
\* through the checks of decryptFile with the other password
C20_Witness ==
    /\ Encrypted
    /\ enc.algorithm = "AES-CBC"
    /\ enc.file.bytes = <<>>
    /\ Len(enc.cipherBuf) = BLOCK_BYTES
    /\ DecDone /\ Untampered /\ ~SamePassword
    /\ dec.st.stage = "Done"
    /\ Len(dec.st.ciphertext) = BLOCK_BYTES
    /\ DecryptCalls[Len(DecryptCalls)].op = "decrypt"

\* encryptFile or decryptFile was called and has not settled
EncryptInFlight == enc.pc \in {"derive", "read", "seal"}
DecryptInFlight == dec.pc \in {"read", "derive", "open"}

\* the promise the suspended handler awaits is fulfilled / rejected
AwaitedFulfilled ==
    \/ page.route = "encrypt" /\ enc.pc = "done" /\ enc.error = ""
    \/ page.route = "decrypt" /\ dec.pc = "done" /\ dec.error = ""
AwaitedRejected ==
    \/ page.route = "encrypt" /\ enc.pc = "done" /\ enc.error # ""
    \/ page.route = "decrypt" /\ dec.pc = "done" /\ dec.error # ""

\* While a handler is suspended the page is busy, shows no error and its
\* button is disabled; when none is, the page is not busy.  A pipeline call
\* is in flight only for the suspended handler of the page shown.  Every
\* operation started is pending or has ended in one download or one error.
PagesBusyState ==
    /\ page.awaiting => page.busy /\ page.error = NoError /\ Disabled
    /\ ~page.awaiting => ~page.busy
    /\ EncryptInFlight => page.awaiting /\ page.route = "encrypt"
    /\ DecryptInFlight => page.awaiting /\ page.route = "decrypt"
    /\ ~(EncryptInFlight /\ DecryptInFlight)
    /\ page.runs = page.downloads + page.failures + (IF page.awaiting THEN 1 ELSE 0)
    /\ page.error # NoError => page.failures > 0

\* An operation starts only from a page that is not busy, with no pipeline
\* call in flight, and sets busy and clears the error; a download happens
\* only when the awaited call succeeded, an error is shown only when it
\* failed, and both clear busy.
PagesBusyStep ==
    /\ page'.runs # page.runs =>
          /\ page'.runs = page.runs + 1
          /\ ~page.busy /\ ~EncryptInFlight /\ ~DecryptInFlight
          /\ page'.busy /\ page'.error = NoError
          /\ page'.downloads = page.downloads
          /\ (EncryptInFlight' /\ page.route = "encrypt")
               \/ (DecryptInFlight' /\ page.route = "decrypt")
    /\ page'.downloads # page.downloads =>
          /\ page'.downloads = page.downloads + 1
          /\ page.busy /\ AwaitedFulfilled
          /\ ~page'.busy /\ page'.error = NoError
          /\ page'.failures = page.failures
    /\ page'.failures # page.failures =>
          /\ page'.failures = page.failures + 1
          /\ page.busy /\ AwaitedRejected
          /\ ~page'.busy /\ page'.error # NoError
          /\ page'.downloads = page.downloads
          /\ page'.saved = page.saved /\ stored' = stored

====
